---- MODULE Spec2Model ----
(***************************************************************************)
(* Voice chess client: the turn controller (App), the audio recorder hook  *)
(* (useAudioRecorder) and the streaming API client (submitTurnStream),     *)
(* with the server reduced to its wire contract.                           *)
(*                                                                         *)
(* React state is modelled twice: `st` holds the latest values written by  *)
(* the setters, `view` holds the values captured by the last render (the   *)
(* closures of the useCallback handlers and the refs refreshed by the      *)
(* effect at App lines 206-211).  Handlers read `view` and write `st`.     *)
(***************************************************************************)
EXTENDS Integers, Sequences, FiniteSets, TLC

\* ---------------------------------------------------------------- bounds
MaxFrames == 2      \* frames the server sends per turn under SpecStream
AppFrames == 1      \* frames the server sends per turn under Spec
MaxTurns == 2       \* handleStopRecording invocations that pass the guard
MaxStarts == 2      \* getUserMedia calls
MaxSessions == 2    \* createSession calls

\* ----------------------------------------------------------------- texts
Null == "<null>"            \* the null / undefined of a string-valued state
MsgTimeout == "Request timed out. Please try again with a shorter recording."
MsgNoResult == "No final result received from server"
MsgNoBody == "No response body"
MsgNoAudio == "No audio captured"
MsgUnknown == "Unknown error"
MsgRequestFailed == "Request failed"
MsgMic == "Microphone access denied or unsupported browser."
\* texts the environment supplies
MsgDetail == "detail from server"       \* the `detail` of an error body
MsgStatusText == "Bad Gateway"          \* a non-empty response.statusText
MsgServerEvent == "Could not understand the move"   \* the `error` of an event
MsgFetchFailed == "Failed to fetch"     \* TypeError of a rejected fetch
MsgNetwork == "network error"           \* TypeError of a rejected read
MsgTypeError == "Cannot read properties of undefined (reading 'san')"
MsgPermission == "Permission denied"    \* DOMException of getUserMedia
MsgInvalidState == "The MediaRecorder's state is 'inactive'."

\* The statusText of a response: empty over HTTP/2, a reason phrase otherwise.
StatusTexts == {"", MsgStatusText}
\* The `detail` of an error body: absent (Null), or a string.
Details == {Null, MsgDetail}

\* ------------------------------------------------------- SAN strings
\* A SAN string is a sequence of pieces; <<>> is an absent engine_move.
NoMove == <<>>
SanPlain == <<"e5">>
SanCheckmate == <<"Checkmate!">>
SanStalemate == <<"Stalemate">>
SanMate == <<"Qh4", "#">>
SanStalemateLong == <<"Stalemate", "!">>
SanSet == {SanPlain, SanCheckmate, SanStalemate, SanMate, SanStalemateLong}

EndsWith(san, piece) == Len(san) > 0 /\ san[Len(san)] = piece
Includes(san, piece) == \E i \in 1..Len(san) : san[i] = piece

\* App lines 157-173: the four terminal patterns of the engine move's SAN.
IsTerminalSan(san) ==
    \/ san = SanCheckmate
    \/ san = SanStalemate
    \/ EndsWith(san, "#")
    \/ Includes(san, "Stalemate")

\* ------------------------------------------------------- positions
\* A position (fen) is named by the number of plies applied, plus one; the
\* absent or empty fen, which is falsy in `data.fen`, is named by zero.
FenOf(plies) == plies + 1
NoFen == FenOf(-1)

\* ------------------------------------------------------- stream events
\* StreamUpdate (client lines 46-54).  json = FALSE marks a frame whose
\* payload is not JSON text.
Event(status, fen, san, error, json) ==
    [status |-> status, fen |-> fen, san |-> san, error |-> error, json |-> json]

NoEvent == Event("", NoFen, NoMove, "", FALSE)

ProgressStatuses == {"player_moved"}

\* The frames a server can put on the wire while its session shows `fen`.
ServerFrames(fen) ==
    {Event(s, NoFen, NoMove, "", TRUE) : s \in ProgressStatuses}
    \cup {Event("complete", fen, san, "", TRUE) : san \in SanSet}
    \cup {Event("complete", NoFen, SanPlain, "", TRUE)}
    \cup {Event("complete", fen, NoMove, "", TRUE)}
    \cup {Event("error", NoFen, NoMove, MsgServerEvent, TRUE)}
    \cup {Event("interpreting", NoFen, NoMove, MsgServerEvent, TRUE)}
    \cup {Event("garbage", NoFen, NoMove, "", FALSE)}

\* ------------------------------------------------------- wire text
\* The text of one frame, in pieces a read can be cut between: the marker
\* "data: ", the first part of the payload, the rest of the payload, and the
\* blank line that ends the frame.
Tok(c, e) == [c |-> c, e |-> e]
Marker == Tok("data: ", NoEvent)
Newline == Tok("\n", NoEvent)
Encode(e) == <<Marker, Tok("{", e), Tok("}", e), Newline>>

\* chunk.split('\n'): the lines of a chunk, the text after the last newline
\* included.
RECURSIVE Split(_)
Split(chunk) ==
    IF \A i \in 1..Len(chunk) : chunk[i] # Newline
    THEN <<chunk>>
    ELSE LET n == CHOOSE i \in 1..Len(chunk) :
                      chunk[i] = Newline /\ \A j \in 1..(i - 1) : chunk[j] # Newline
         IN  <<SubSeq(chunk, 1, n - 1)>> \o Split(SubSeq(chunk, n + 1, Len(chunk)))

\* line.startsWith('data: ')
StartsWithMarker(line) == Len(line) > 0 /\ line[1] = Marker

\* line.slice(6)
SliceMarker(line) == Tail(line)

\* JSON.parse succeeds on a whole JSON text only.
JsonParses(text) ==
    /\ Len(text) = 2
    /\ text[1].c = "{" /\ text[2].c = "}"
    /\ text[1].e = text[2].e
    /\ text[1].e.json

JsonParse(text) == text[1].e

\* ------------------------------------------------------- the read loop
\* A result that takes a move list from the stream.
TurnResponseWithMoves(e) == [fen |-> e.fen, san |-> e.san, moves |-> 1, none |-> FALSE]

\* TurnResponse as synthesized at client lines 105-111: the fen and the
\* engine move of the event, and an empty move list.
TurnResponse(e) == [fen |-> e.fen, san |-> e.san, moves |-> 0, none |-> FALSE]
NoResult == [fen |-> NoFen, san |-> NoMove, moves |-> 0, none |-> TRUE]

\* The accumulator of the loop: finalResult, the events handed to onUpdate,
\* and the error that escaped the loop body (Null: none).
Acc(final, dispatched, thrown) ==
    [final |-> final, dispatched |-> dispatched, thrown |-> thrown]

\* An update handler that is handed the event ahead of the earlier ones.
DispatchFirst(dispatched, data) == <<data>> \o dispatched

\* Client line 102: onUpdate(data), called as each event is parsed.
Dispatch(dispatched, data) == Append(dispatched, data)

\* Client lines 101-114, the body of the inner try: parse, dispatch, then
\* record the final result or throw the event's error.
TryBody(line, acc) ==
    LET text == SliceMarker(line) IN
    IF ~JsonParses(text)
    THEN [acc EXCEPT !.thrown = "SyntaxError"]
    ELSE LET data == JsonParse(text)
             seen == Dispatch(acc.dispatched, data)
         IN  IF data.status = "complete" /\ data.fen # NoFen
             THEN Acc(TurnResponse(data), seen, Null)
             ELSE IF data.status = "error" \/ data.error # ""
             THEN Acc(acc.final, seen,
                      IF data.error # "" THEN data.error ELSE MsgUnknown)
             ELSE Acc(acc.final, seen, Null)

\* Client lines 115-117: the catch of the inner try logs whatever was thrown
\* in the body, the event's own error included, and the loop goes on.
CatchParseError(acc) == [acc EXCEPT !.thrown = Null]

\* Client lines 99-118: one line of a chunk.
ProcessLine(line, acc) ==
    IF StartsWithMarker(line) THEN CatchParseError(TryBody(line, acc)) ELSE acc

\* Client lines 98-119: the lines of one chunk, in order; an error that
\* escapes a line ends the loop.
RECURSIVE ProcessLines(_, _)
ProcessLines(lines, acc) ==
    IF lines = <<>> \/ acc.thrown # Null
    THEN acc
    ELSE ProcessLines(Tail(lines), ProcessLine(Head(lines), acc))

\* Client lines 95-96: decode and split one chunk, then run the loop.
ProcessChunk(chunk, acc) == ProcessLines(Split(chunk), acc)

\* =================================================================== state
VARIABLES
    st,          \* React state of App and of the recorder hook: latest values
    view,        \* the values of the last render: closures and refs
    mediaStream, \* mediaStream.current (0: null)
    recorder,    \* recorder.current (0: null)
    chunks,      \* chunks.current.length
    live,        \* the acquired streams whose tracks are not stopped
    recording,   \* the MediaRecorders in state "recording"
    stopQueued,  \* the MediaRecorders whose stop event is queued
    pendingMic,  \* start() calls waiting for getUserMedia
    nstarts,     \* getUserMedia calls made
    held,        \* the record button or the Enter key is held down
    turns,       \* the handleStopRecording invocations, by number
    nturns,      \* handleStopRecording invocations that passed the guard
    server,      \* the session store: plies applied to the position of each
                 \* session (-1: no session)
    log,         \* the session store: the move log of each session
    skill,       \* the session store: the skill level of each session
    pipeline,    \* the turn pipeline of each turn request
    creating,    \* createSession requests in flight
    ncreates     \* createSession requests made

vars == <<st, view, mediaStream, recorder, chunks, live, recording, stopQueued,
          pendingMic, nstarts, held, turns, nturns, server, log, skill, pipeline,
          creating, ncreates>>

recorderVars == <<mediaStream, recorder, chunks, live, recording, stopQueued,
                  pendingMic, nstarts, held>>
serverVars == <<server, log, skill, pipeline, creating, ncreates>>

\* MoveRecord (types lines 3-10): the ply number and the actor of a move.
MoveRecord(ply, actor) == [ply |-> ply, actor |-> actor]
\* A store that numbers the plies of a log from zero.
AppendMoveFromZero(moves, actor) == Append(moves, MoveRecord(Len(moves), actor))

\* The store appends a move under the next ply number.
AppendMove(moves, actor) == Append(moves, MoveRecord(Len(moves) + 1, actor))

\* The move log after a turn that had committed `done` of its moves has
\* committed `now` of them: the player's move first, the engine's second.
Committed(moves, done, now) ==
    IF now = done THEN moves
    ELSE IF done = 0 /\ now = 1 THEN AppendMove(moves, "player")
    ELSE IF done = 1 /\ now = 2 THEN AppendMove(moves, "engine")
    ELSE AppendMove(AppendMove(moves, "player"), "engine")

\* App line 52 and lines 304-312: the skill level the page starts with, and
\* the other end of the slider.
DefaultSkill == 5
MaxSkill == 20
SkillLevels == {DefaultSkill, MaxSkill}

\* SessionState (types lines 12-16); session_id 0 is the null session.
Session(id, plies) == [session_id |-> id, fen |-> FenOf(plies), moves |-> plies]
NoSession == [session_id |-> 0, fen |-> NoFen, moves |-> 0]

\* App lines 44-55 and recorder lines 15-16: the useState initial values.
InitialState ==
    [session |-> NoSession, isLoading |-> TRUE, isSubmitting |-> FALSE,
     error |-> Null, gameEnded |-> FALSE, isRecording |-> FALSE,
     recorderError |-> Null, skillLevel |-> DefaultSkill]

\* The outcome of submitTurnStream: pending, a Turn Result, or an Error.
Pending == [kind |-> "pending", msg |-> Null]
Returned == [kind |-> "result", msg |-> Null]
Threw(msg) == [kind |-> "error", msg |-> msg]

\* One handleStopRecording invocation and the submitTurnStream call it makes:
\* where it waits (pc), the session id and the recorder of its closure, the
\* timer, the reader's lock, controller.signal.aborted, the `done` of the last
\* read, finalResult, and the events handed to onUpdate; of the server, the
\* frames sent, whether the response has ended, the pieces read so far and
\* the moves the turn has committed.
IdleTurn ==
    [pc |-> "idle", sid |-> 0, rec |-> 0, timer |-> FALSE, locked |-> FALSE,
     aborted |-> FALSE, done |-> FALSE,
     closed |-> FALSE, sent |-> <<>>, nread |-> 0, committed |-> 0,
     final |-> NoResult, dispatched |-> <<>>, outcome |-> Pending]

\* An invocation that has run to its end keeps nothing.
DoneTurn == [IdleTurn EXCEPT !.pc = "done"]

\* A turn pipeline: its stage, the stage it failed in, the session it works
\* on, that session's move log and position when the request arrived, and the
\* skill level the engine was asked to play at (0: not asked).
Started ==
    [stage |-> "Started", failedIn |-> "", sid |-> 0, moves |-> <<>>,
     plies |-> 0, level |-> 0]

Turns == 1..MaxTurns
Sessions == 1..MaxSessions

\* The text the server has sent, and the part of it no read has returned yet.
FrameLen == Len(Encode(NoEvent))
WireText(sent) ==
    [j \in 1..(FrameLen * Len(sent)) |->
        Encode(sent[((j - 1) \div FrameLen) + 1])[((j - 1) % FrameLen) + 1]]
Unread(t) ==
    LET text == WireText(turns[t].sent)
    IN  SubSeq(text, turns[t].nread + 1, Len(text))

\* App lines 237-243 and 277: the record button is rendered and not disabled.
ButtonEnabled ==
    /\ ~view.isLoading
    /\ view.session # NoSession
    /\ ~(view.isSubmitting \/ view.gameEnded)

\* No render is pending.  React renders as soon as the task that wrote the
\* state has ended: an input event that is already queued can be handled
\* before the render, while the completions of requests, timers and media
\* events find the state rendered.
Quiet == view = st

\* Updates made in the handler of a discrete event (mouse button, touch, key,
\* click) are rendered before the next event is handled; those of mouseleave,
\* a continuous event, and of promise continuations wait for Render.
RendersAtOnce(kind) == kind # "mouseleave"
Rendered(kind, next) == IF RendersAtOnce(kind) THEN next ELSE view

Init ==
    /\ st = InitialState
    /\ view = InitialState
    /\ mediaStream = 0 /\ recorder = 0 /\ chunks = 0
    /\ live = {} /\ recording = {} /\ stopQueued = {}
    /\ pendingMic = 0 /\ nstarts = 0 /\ held = FALSE
    /\ turns = [t \in Turns |-> IdleTurn]
    /\ nturns = 0
    /\ server = [i \in Sessions |-> -1]
    /\ log = [i \in Sessions |-> <<>>]
    /\ skill = [i \in Sessions |-> 0]
    /\ pipeline = [t \in Turns |-> Started]
    \* App lines 81-83: the mount effect has called startNewGame
    /\ creating = 1 /\ ncreates = 1

\* ========================================================== recorder, App
\* handleResponse (client lines 5-12): the message of a failed request.
\* `detail` is absent (Null), a string, or not a string ("<list>").
HandleResponseMessage(detail, statusText) ==
    LET message == IF detail # Null THEN detail ELSE statusText
    IN  IF message = "<list>" THEN MsgRequestFailed ELSE message

\* The ways getSession and createSession fail: a rejected fetch, or a
\* response that is not ok.
RequestErrors ==
    {MsgFetchFailed}
    \cup {HandleResponseMessage(d, s) : d \in Details \cup {"<list>"}, s \in StatusTexts}

\* App lines 96-109 up to the await, with start (recorder lines 24-31): a
\* press on the record button, a touch, or Enter going down (lines 214-219).
PressReaches(kind) ==
    /\ IF kind = "keydown"
       THEN /\ ~view.isRecording /\ ~view.isSubmitting /\ ~view.gameEnded
            /\ view.session.session_id # 0
       ELSE ButtonEnabled
    \* App line 97
    /\ view.session.session_id # 0 /\ ~view.isRecording /\ ~view.isSubmitting

handleStartRecording(kind) ==
    /\ PressReaches(kind)
    /\ nstarts < MaxStarts
    /\ st' = [st EXCEPT !.recorderError = Null]
    /\ view' = Rendered(kind, st')
    /\ pendingMic' = pendingMic + 1
    /\ nstarts' = nstarts + 1
    /\ held' = TRUE
    /\ UNCHANGED <<mediaStream, recorder, chunks, live, recording, stopQueued,
                   turns, nturns, serverVars>>

\* Recorder lines 31-47 and App lines 103-104: getUserMedia resolved.
MicGranted ==
    /\ Quiet
    /\ pendingMic > 0
    /\ LET s == nstarts - pendingMic + 1 IN
       /\ mediaStream' = s
       /\ recorder' = s
       /\ chunks' = 0
       /\ live' = live \cup {s}
       /\ recording' = recording \cup {s}
    /\ pendingMic' = pendingMic - 1
    /\ st' = [st EXCEPT !.isRecording = TRUE, !.error = Null]
    /\ UNCHANGED <<view, stopQueued, nstarts, held, turns, nturns, serverVars>>

\* Recorder lines 33-36 and App lines 105-108: getUserMedia rejected.
MicDenied ==
    /\ Quiet
    /\ pendingMic > 0
    /\ pendingMic' = pendingMic - 1
    /\ st' = [st EXCEPT !.recorderError = MsgMic, !.error = MsgPermission]
    /\ UNCHANGED <<view, mediaStream, recorder, chunks, live, recording,
                   stopQueued, nstarts, held, turns, nturns, serverVars>>

\* A handler whose catch is not followed by the finally.
TurnFailedStillSubmitting(state, msg) == [state EXCEPT !.error = msg]

\* App lines 179-184: the catch and the finally of handleStopRecording.
TurnFailed(state, msg) == [state EXCEPT !.error = msg, !.isSubmitting = FALSE]

\* A release event reaches handleStopRecording: on the button (mouseup,
\* mouseleave, touchend) or Enter going up (App lines 221-226).
ReleaseReaches(kind) ==
    /\ IF kind = "keyup"
       THEN view.isRecording /\ ~view.isSubmitting
       ELSE ButtonEnabled
    \* App line 112
    /\ view.session.session_id # 0 /\ view.isRecording /\ ~view.isSubmitting

\* App lines 111-123 with stop (recorder lines 49-52): no recorder is left,
\* stop returns null and the turn fails in the same task.
ReleaseWithoutRecorder(kind) ==
    /\ ReleaseReaches(kind)
    /\ recorder = 0
    /\ st' = TurnFailed(st, MsgNoAudio)
    /\ view' = Rendered(kind, st')
    /\ held' = FALSE
    /\ UNCHANGED <<mediaStream, recorder, chunks, live, recording, stopQueued,
                   pendingMic, nstarts, turns, nturns, serverVars>>

\* App lines 111-120 with stop (recorder lines 49-68): the handler asks the
\* recorder to stop and waits for its stop event.  `throws`: stop() on a
\* recorder that is already inactive throws in some browsers.
ReleaseStops(kind, throws) ==
    /\ ReleaseReaches(kind)
    /\ recorder # 0
    /\ IF recorder \notin recording /\ throws
       THEN /\ st' = TurnFailed(st, MsgInvalidState)
            /\ UNCHANGED <<turns, nturns, recording, stopQueued>>
       ELSE /\ nturns < MaxTurns
            /\ nturns' = nturns + 1
            /\ turns' = [turns EXCEPT ![nturns + 1] =
                   [IdleTurn EXCEPT !.pc = "stopping", !.rec = recorder,
                                    !.sid = view.session.session_id]]
            /\ st' = [st EXCEPT !.isSubmitting = TRUE]
            /\ recording' = recording \ {recorder}
            /\ stopQueued' = IF recorder \in recording
                             THEN stopQueued \cup {recorder} ELSE stopQueued
    /\ view' = Rendered(kind, st')
    /\ held' = FALSE
    /\ UNCHANGED <<mediaStream, recorder, chunks, live, pendingMic, nstarts,
                   serverVars>>

\* A press that finds the button disabled, or that a guard of the listener
\* (App line 215) or of handleStartRecording (line 97) turns away: nothing
\* happens but that the button or the key is now held.
PressUnheard(kind) ==
    /\ ~held
    /\ ~PressReaches(kind)
    /\ held' = TRUE
    /\ UNCHANGED <<st, view, mediaStream, recorder, chunks, live, recording,
                   stopQueued, pendingMic, nstarts, turns, nturns, serverVars>>

\* A release that a guard of the listener (App line 222) or of
\* handleStopRecording (line 112) turns away, as it does while the
\* microphone has not been granted: the button or the key is let go and
\* nothing else happens.
ReleaseUnheard(kind) ==
    /\ held
    /\ ~ReleaseReaches(kind)
    /\ held' = FALSE
    /\ UNCHANGED <<st, view, mediaStream, recorder, chunks, live, recording,
                   stopQueued, pendingMic, nstarts, turns, nturns, serverVars>>

handleStopRecording(kind) ==
    \/ ReleaseWithoutRecorder(kind)
    \/ \E throws \in BOOLEAN : ReleaseStops(kind, throws)

\* The recorder's dataavailable and stop events (recorder lines 39-43 and
\* 54-64), then the continuations of the handlers that awaited stop (App
\* lines 120-148): without a blob the turn fails, with one submitTurnStream
\* is called, which arms the timer and sends the request (client lines 61-74).
RecorderStopEvent(r, hasData) ==
    /\ Quiet
    /\ r \in stopQueued
    /\ LET waiting == {t \in Turns : turns[t].pc = "stopping" /\ turns[t].rec = r}
           first == CHOOSE t \in waiting : \A u \in waiting : t <= u
           blob == chunks + (IF hasData THEN 1 ELSE 0) > 0
           failing == {t \in waiting : t # first \/ ~blob}
       IN  /\ waiting # {}
           /\ turns' = [t \in Turns |->
                  IF t \in failing THEN DoneTurn
                  ELSE IF t = first
                  THEN [turns[t] EXCEPT !.pc = "fetch", !.timer = TRUE]
                  ELSE turns[t]]
           /\ st' = IF failing # {}
                    THEN TurnFailed([st EXCEPT !.isRecording = FALSE], MsgNoAudio)
                    ELSE [st EXCEPT !.isRecording = FALSE]
    /\ stopQueued' = stopQueued \ {r}
    /\ chunks' = 0
    /\ live' = live \ {mediaStream}
    /\ mediaStream' = 0
    /\ recorder' = 0
    /\ UNCHANGED <<view, recording, pendingMic, nstarts, held, nturns, serverVars>>

\* ======================================================= submitTurnStream
\* App lines 148-151 and 179-184: the continuation of the await on
\* submitTurnStream, which runs as a microtask as soon as the promise has
\* settled.  A Turn Result is followed by the session fetch; an error goes
\* to the catch and the finally.  The invocation keeps the session id and
\* the Turn Result, nothing else.
ResumedTurn(turn) ==
    IF turn.outcome.kind = "result"
    THEN [DoneTurn EXCEPT !.pc = "getSession", !.sid = turn.sid, !.final = turn.final]
    ELSE DoneTurn
ResumedState(state, turn) ==
    IF turn.outcome.kind = "result" THEN state ELSE TurnFailed(state, turn.outcome.msg)

\* A read loop that is left without releasing the reader.
LeavesLocked(turn) == turn

\* Client lines 121-123: the finally of the read loop releases the reader's
\* lock, however the loop is left.
Finally(turn) == [turn EXCEPT !.locked = FALSE]

\* The promise of submitTurnStream settles and the timer is cleared (client
\* lines 135-137).  With `resume` the caller's continuation runs in the same
\* step; without it the settled call is left as it is, for inspection.
SettledTurn(turn, outcome) ==
    [turn EXCEPT !.pc = "settled", !.outcome = outcome, !.timer = FALSE]
Settle(t, turn, outcome, resume) ==
    LET settled == SettledTurn(turn, outcome) IN
    IF resume
    THEN /\ turns' = [turns EXCEPT ![t] = ResumedTurn(settled)]
         /\ st' = ResumedState(st, settled)
    ELSE /\ turns' = [turns EXCEPT ![t] = settled]
         /\ st' = st

\* Client lines 130-134: the outer catch turns an AbortError, and nothing
\* else, into the timeout message.
OuterCatch(name, msg) == IF name = "AbortError" THEN MsgTimeout ELSE msg

\* Client lines 70-74: fetch rejects (the server cannot be reached).
FetchFails(t, resume) ==
    /\ Quiet
    /\ turns[t].pc = "fetch"
    /\ Settle(t, turns[t], Threw(OuterCatch("TypeError", MsgFetchFailed)), resume)
    /\ UNCHANGED <<view, recorderVars, nturns, serverVars>>

\* Client lines 70-85: the response arrives.  A response that is not ok has
\* its body read for the error (line 77); an ok response without a body ends
\* the call; otherwise the reader takes its lock.
FetchResolves(t, ok, hasBody, resume) ==
    /\ Quiet
    /\ turns[t].pc = "fetch"
    /\ IF ~ok
       THEN turns' = [turns EXCEPT ![t].pc = "errjson"] /\ st' = st
       ELSE IF ~hasBody
       THEN Settle(t, turns[t], Threw(OuterCatch("Error", MsgNoBody)), resume)
       ELSE turns' = [turns EXCEPT ![t].pc = "read", ![t].locked = TRUE] /\ st' = st
    /\ UNCHANGED <<view, recorderVars, nturns, serverVars>>

\* Client lines 77-79: errorData?.detail || response.statusText.
ErrorMessage(detail, statusText) ==
    IF detail # Null /\ detail # "" THEN detail ELSE statusText

\* Client lines 76-80: the error body has been read (or was not JSON, which
\* leaves {}), and the call throws its message.
ErrorBodyRead(t, detail, statusText, resume) ==
    /\ Quiet
    /\ turns[t].pc = "errjson"
    /\ Settle(t, turns[t],
              Threw(OuterCatch("Error", ErrorMessage(detail, statusText))), resume)
    /\ UNCHANGED <<view, recorderVars, nturns, serverVars>>

\* What the timer's abort does to the call (client line 67), by where the
\* call waits.  While the error body is read, the rejection of json() is
\* swallowed by its .catch(() => ({})) at line 77 and the call throws the
\* status text; elsewhere the AbortError reaches the outer catch.
AbortOutcome(pc, statusText) ==
    IF pc = "errjson"
    THEN Threw(OuterCatch("Error", ErrorMessage(Null, statusText)))
    ELSE Threw(OuterCatch("AbortError", "The user aborted a request."))

\* Client line 67: the deadline elapses while the call is still waiting.
\* The status text is that of the response, and matters only while the
\* error body is read.
Timeout(t, statusText, resume) ==
    /\ Quiet
    /\ turns[t].timer
    /\ turns[t].pc \in {"fetch", "errjson", "read"}
    /\ turns[t].pc # "errjson" => statusText = ""
    /\ LET aborted == [turns[t] EXCEPT !.aborted = TRUE] IN
       Settle(t, IF turns[t].pc = "read" THEN Finally(aborted) ELSE aborted,
              AbortOutcome(turns[t].pc, statusText), resume)
    /\ UNCHANGED <<view, recorderVars, nturns, serverVars>>

\* The server pushes one more frame of the turn's stream, at most n per turn.
\* Sending player_moved commits the player's move, sending complete commits
\* the engine's move as well; a complete frame carries the position after both.
ServerSendUpTo(t, n) ==
    /\ Quiet
    /\ turns[t].pc = "read"
    /\ ~turns[t].closed
    /\ Len(turns[t].sent) < n
    /\ LET sid == turns[t].sid
           done == turns[t].committed
       IN  \E e \in ServerFrames(FenOf(server[sid] + 2 - done)) :
             LET now == IF e.status = "complete" THEN 2
                        ELSE IF e.status = "player_moved" /\ done = 0 THEN 1
                        ELSE done
             IN  /\ turns' = [turns EXCEPT ![t].sent = Append(@, e),
                                           ![t].committed = now]
                 /\ server' = [server EXCEPT ![sid] = @ + now - done]
                 /\ log' = [log EXCEPT ![sid] = Committed(@, done, now)]
    /\ UNCHANGED <<st, view, recorderVars, nturns, skill, pipeline, creating,
                   ncreates>>

\* The server ends the response.
ServerClose(t) ==
    /\ Quiet
    /\ turns[t].pc = "read"
    /\ ~turns[t].closed
    /\ turns' = [turns EXCEPT ![t].closed = TRUE]
    /\ UNCHANGED <<st, view, recorderVars, nturns, serverVars>>

\* ------------------------------------------------------- the turn pipeline
\* The stages of a turn in their order, and the status each one emits when
\* it is entered.
Stages ==
    <<"Transcribing", "Transcribed", "Interpreting", "PlayerMoved",
      "EngineThinking", "Complete">>
StatusOrder ==
    <<"transcribing", "transcribed", "interpreting", "player_moved",
      "engine_thinking", "complete">>
StageIndex(stage) ==
    IF stage = "Started" THEN 0
    ELSE CHOOSE i \in 1..Len(Stages) : Stages[i] = stage

\* The stages whose collaborator can fail: transcription (an error or an empty
\* transcript), interpretation (no move, or an illegal one) and the engine.
FailingStages == {"Transcribing", "Interpreting", "EngineThinking"}
Ended(p) == p.stage \in {"Complete", "Failed"}

\* A pipeline that records both moves when the engine has replied.
CommitsWithReply(next) ==
    IF next = "Complete" THEN <<"player", "engine">> ELSE <<>>

\* A pipeline that records the player's move as soon as it has a transcript
\* to interpret.
CommitsUninterpreted(next) ==
    IF next = "Interpreting" THEN <<"player">>
    ELSE IF next = "Complete" THEN <<"engine">>
    ELSE <<>>

\* Entering PlayerMoved records the player's move, entering Complete the
\* engine's.
Commits(next) ==
    IF next = "PlayerMoved" THEN <<"player">>
    ELSE IF next = "Complete" THEN <<"engine">>
    ELSE <<>>

RECURSIVE AppendMoves(_, _)
AppendMoves(moves, actors) ==
    IF actors = <<>> THEN moves
    ELSE AppendMoves(AppendMove(moves, Head(actors)), Tail(actors))

\* A pipeline that undoes the moves of a turn that fails.
RollsBack(p, moves) == p.moves

\* A failing stage leaves the session as it is: what the turn has recorded
\* stays recorded.
KeepsCommitted(p, moves) == moves

\* One step of the pipeline of turn t: the stage in hand succeeds (ok) and
\* the next stage is entered, or it fails and the pipeline ends in Failed.
\* The event of the step is pushed on the response, which ends with the
\* pipeline.  `san` is the notation of the engine's reply.
PipelineStep(t, ok, san) ==
    /\ Quiet
    /\ turns[t].pc = "read"
    /\ ~turns[t].closed
    /\ ~Ended(pipeline[t])
    /\ server[turns[t].sid] >= 0
    /\ ok \/ pipeline[t].stage \in FailingStages
    /\ LET sid == turns[t].sid
           was == pipeline[t]
           p == IF was.stage = "Started"
                THEN [was EXCEPT !.sid = sid, !.moves = log[sid],
                                 !.plies = server[sid]]
                ELSE was
           next == IF ok THEN Stages[StageIndex(p.stage) + 1] ELSE "Failed"
           moves == IF ok THEN AppendMoves(log[sid], Commits(next))
                    ELSE KeepsCommitted(p, log[sid])
           e == IF ~ok THEN Event("error", NoFen, NoMove, MsgServerEvent, TRUE)
                ELSE IF next = "Complete"
                THEN Event("complete", FenOf(Len(moves)), san, "", TRUE)
                ELSE Event(StatusOrder[StageIndex(next)], NoFen, NoMove, "", TRUE)
       IN  /\ next = "Complete" \/ san = SanPlain
           /\ pipeline' = [pipeline EXCEPT ![t] =
                  [p EXCEPT !.stage = next,
                            !.failedIn = IF ok THEN "" ELSE p.stage,
                            !.level = IF next = "EngineThinking"
                                      THEN skill[sid] ELSE @]]
           /\ log' = [log EXCEPT ![sid] = moves]
           /\ server' = [server EXCEPT ![sid] = Len(moves)]
           /\ turns' = [turns EXCEPT
                  ![t].sent = Append(@, e),
                  ![t].committed = Len(moves) - p.plies,
                  ![t].closed = next \in {"Complete", "Failed"}]
    /\ UNCHANGED <<st, view, recorderVars, nturns, skill, creating, ncreates>>

\* Client lines 92-119: a read returns the next k pieces of text as one
\* chunk, and the loop runs over its lines.  An error that escapes the loop
\* releases the lock and reaches the outer catch.
ReadChunk(t, k, resume) ==
    /\ Quiet
    /\ turns[t].pc = "read"
    /\ k \in 1..Len(Unread(t))
    /\ LET chunk == SubSeq(Unread(t), 1, k)
           acc == ProcessChunk(chunk, Acc(turns[t].final, turns[t].dispatched, Null))
           read == [turns[t] EXCEPT !.final = acc.final,
                                    !.dispatched = acc.dispatched,
                                    !.nread = @ + k]
       IN  IF acc.thrown # Null
           THEN Settle(t, Finally(read), Threw(OuterCatch("Error", acc.thrown)), resume)
           ELSE turns' = [turns EXCEPT ![t] = read] /\ st' = st
    /\ UNCHANGED <<view, recorderVars, nturns, serverVars>>

\* An end of the loop without the check of line 125: whatever finalResult
\* holds is returned.
ReturnsFinalResult(final) == Returned

\* Client lines 125-129: after the loop, the result or the missing-result
\* error.
AfterLoop(final) == IF final.none THEN Threw(MsgNoResult) ELSE Returned

\* Client lines 92-93 and 121-129: a read reports the end of the stream.
ReadDone(t, resume) ==
    /\ Quiet
    /\ turns[t].pc = "read"
    /\ turns[t].closed
    /\ Unread(t) = <<>>
    /\ Settle(t, Finally([turns[t] EXCEPT !.done = TRUE]),
              AfterLoop(turns[t].final), resume)
    /\ UNCHANGED <<view, recorderVars, nturns, serverVars>>

\* Client lines 92 and 121-134: a read rejects because the connection broke
\* before the server ended the response.
ReadFails(t, resume) ==
    /\ Quiet
    /\ turns[t].pc = "read"
    /\ ~turns[t].closed
    /\ Settle(t, Finally(turns[t]), Threw(OuterCatch("TypeError", MsgNetwork)), resume)
    /\ UNCHANGED <<view, recorderVars, nturns, serverVars>>

\* ============================================ handleStopRecording, the rest
\* App lines 125-146: handleStreamUpdate, the status message after an update.
\* The switch has a case for six statuses; for any other status the message
\* is left as it was.
handleStreamUpdate(status, update) ==
    CASE update.status = "transcribing" -> "Transcribing audio..."
      [] update.status = "transcribed" -> "Heard: <transcript>"
      [] update.status = "interpreting" -> "Interpreting move with LLM..."
      [] update.status = "player_moved" -> "Your move: <san>. Engine is thinking..."
      [] update.status = "engine_thinking" -> "Engine is calculating..."
      [] update.status = "complete" -> "Complete! Engine replied <san>."
      [] OTHER -> status

\* A local session rebuilt from the Turn Result: its position and its move
\* list, under the fetched identifier.
SetSessionFromResult(state, fetched, result) ==
    [state EXCEPT !.session = [session_id |-> fetched.session_id,
                               fen |-> result.fen, moves |-> result.moves]]

\* App line 152: setSession with what the fetch returned.
SetSession(state, fetched, result) == [state EXCEPT !.session = fetched]

\* App lines 151-178: getSession resolved.  The local session is replaced,
\* the error cleared, the engine move inspected (an absent engine_move
\* throws there, into the catch) and the move is spoken.
GetSessionResolves(t) ==
    /\ Quiet
    /\ turns[t].pc = "getSession"
    /\ LET fetched == Session(turns[t].sid, server[turns[t].sid])
           next == [SetSession(st, fetched, turns[t].final) EXCEPT !.error = Null]
       IN  IF turns[t].final.san = NoMove
           THEN /\ st' = TurnFailed(next, MsgTypeError)
                /\ turns' = [turns EXCEPT ![t] = DoneTurn]
           ELSE /\ st' = next
                /\ turns' = [turns EXCEPT ![t].pc = "speak"]
    /\ UNCHANGED <<view, recorderVars, nturns, serverVars>>

\* App lines 151 and 179-184: getSession rejected.
GetSessionFails(t, msg) ==
    /\ Quiet
    /\ turns[t].pc = "getSession"
    /\ st' = TurnFailed(st, msg)
    /\ turns' = [turns EXCEPT ![t] = DoneTurn]
    /\ UNCHANGED <<view, recorderVars, nturns, serverVars>>

\* App lines 157-184: speakMove has settled (it never rejects, lines 26-41);
\* a terminal pattern sets gameEnded, and the finally clears isSubmitting in
\* the same continuation.
AfterSpeak(state, san) ==
    [state EXCEPT !.gameEnded = IF IsTerminalSan(san) THEN TRUE ELSE @,
                  !.isSubmitting = FALSE]

SpeakSettles(t) ==
    /\ Quiet
    /\ turns[t].pc = "speak"
    /\ st' = AfterSpeak(st, turns[t].final.san)
    /\ turns' = [turns EXCEPT ![t] = DoneTurn]
    /\ UNCHANGED <<view, recorderVars, nturns, serverVars>>

\* ============================================================ startNewGame
\* App lines 66-72 and 293-297: a click on "Start New Game", shown while
\* gameEnded; the state is reset before the request is made.
startNewGame ==
    /\ ~view.isLoading /\ view.session # NoSession /\ view.gameEnded
    /\ ncreates < MaxSessions
    /\ st' = [st EXCEPT !.isLoading = TRUE, !.gameEnded = FALSE, !.error = Null]
    /\ view' = st'
    /\ creating' = creating + 1
    /\ ncreates' = ncreates + 1
    /\ UNCHANGED <<recorderVars, turns, nturns, server, log, skill, pipeline>>

\* App lines 72-73 and 76-78: createSession resolved with a new session.
CreateResolves ==
    /\ Quiet
    /\ creating > 0
    /\ LET id == Cardinality({i \in Sessions : server[i] >= 0}) + 1 IN
       /\ server' = [server EXCEPT ![id] = 0]
       /\ skill' = [skill EXCEPT ![id] = st.skillLevel]
       /\ st' = [st EXCEPT !.session = Session(id, 0), !.isLoading = FALSE]
    /\ creating' = creating - 1
    /\ UNCHANGED <<view, recorderVars, turns, nturns, log, pipeline, ncreates>>

\* App lines 74-78: createSession rejected.
CreateFails(msg) ==
    /\ Quiet
    /\ creating > 0
    /\ st' = [st EXCEPT !.error = msg, !.isLoading = FALSE]
    /\ creating' = creating - 1
    /\ UNCHANGED <<view, recorderVars, turns, nturns, server, log, skill,
                   pipeline, ncreates>>

\* ================================================================== render
\* A render makes the latest state the one the handlers and the refs see
\* (App lines 206-211), and runs the effect of lines 85-89, which copies a
\* new recorder error into the error state.
Render ==
    /\ view # st
    /\ view' = st
    /\ st' = IF st.recorderError # view.recorderError /\ st.recorderError # Null
             THEN [st EXCEPT !.error = st.recorderError]
             ELSE st
    /\ UNCHANGED <<recorderVars, turns, nturns, serverVars>>

\* ========================================================== specifications
PressKinds == {"mousedown", "touchstart", "keydown"}
ReleaseKinds == {"mouseup", "mouseleave", "touchend", "keyup"}

\* The steps of the submitTurnStream call of turn t, whose response has at
\* most n frames.
ClientNext(t, n, resume) ==
    \/ FetchFails(t, resume)
    \/ \E ok, hasBody \in BOOLEAN : FetchResolves(t, ok, hasBody, resume)
    \/ \E d \in Details, s \in StatusTexts : ErrorBodyRead(t, d, s, resume)
    \/ \E s \in StatusTexts : Timeout(t, s, resume)
    \/ \E k \in 1..(FrameLen * n) : ReadChunk(t, k, resume)
    \/ ReadDone(t, resume)
    \/ ReadFails(t, resume)

\* The steps of submitTurnStream and of the server's stream, the server
\* sending at most n frames.
StreamNext(n, resume) ==
    \E t \in Turns :
        \/ ClientNext(t, n, resume)
        \/ ServerSendUpTo(t, n)
        \/ ServerClose(t)

Next ==
    \/ \E kind \in PressKinds : handleStartRecording(kind)
    \/ MicGranted
    \/ MicDenied
    \/ \E kind \in ReleaseKinds : handleStopRecording(kind)
    \/ \E r \in 1..MaxStarts, hasData \in BOOLEAN : RecorderStopEvent(r, hasData)
    \/ StreamNext(AppFrames, TRUE)
    \/ \E t \in Turns : GetSessionResolves(t)
    \/ \E t \in Turns, msg \in RequestErrors : GetSessionFails(t, msg)
    \/ \E t \in Turns : SpeakSettles(t)
    \/ startNewGame
    \/ CreateResolves
    \/ \E msg \in RequestErrors : CreateFails(msg)
    \/ Render

Spec == Init /\ [][Next]_vars

\* App lines 304-312: the Engine Difficulty slider is moved to `level`.  The
\* slider is on the page once a session is shown and is disabled while a turn
\* is recorded or submitted.
SetSkillLevel(level) ==
    /\ ~view.isLoading
    /\ view.session # NoSession
    /\ ~(view.isSubmitting \/ view.isRecording)
    /\ level # view.skillLevel
    /\ st' = [st EXCEPT !.skillLevel = level]
    /\ view' = st'
    /\ UNCHANGED <<recorderVars, turns, nturns, serverVars>>

\* The first session has been created at the default level and is on the
\* page.
InitTurns ==
    /\ st = [InitialState EXCEPT !.session = Session(1, 0), !.isLoading = FALSE]
    /\ view = st
    /\ mediaStream = 0 /\ recorder = 0 /\ chunks = 0
    /\ live = {} /\ recording = {} /\ stopQueued = {}
    /\ pendingMic = 0 /\ nstarts = 0 /\ held = FALSE
    /\ turns = [t \in Turns |-> IdleTurn]
    /\ nturns = 0
    /\ server = [i \in Sessions |-> IF i = 1 THEN 0 ELSE -1]
    /\ log = [i \in Sessions |-> <<>>]
    /\ skill = [i \in Sessions |-> IF i = 1 THEN DefaultSkill ELSE 0]
    /\ pipeline = [t \in Turns |-> Started]
    /\ creating = 0 /\ ncreates = 1

\* Turns taken one at a time with the mouse button, each served by the turn
\* pipeline.
TurnsNext ==
    \/ handleStartRecording("mousedown")
    \/ MicGranted
    \/ \E throws \in BOOLEAN : ReleaseStops("mouseup", throws)
    \/ \E r \in 1..MaxStarts, hasData \in BOOLEAN : RecorderStopEvent(r, hasData)
    \/ \E t \in Turns : ClientNext(t, Len(Stages) + 1, TRUE)
    \/ \E t \in Turns, ok \in BOOLEAN, san \in {SanPlain, SanMate} :
           PipelineStep(t, ok, san)
    \/ \E t \in Turns : GetSessionResolves(t)
    \/ \E t \in Turns, msg \in RequestErrors : GetSessionFails(t, msg)
    \/ \E t \in Turns : SpeakSettles(t)
    \/ \E level \in SkillLevels : SetSkillLevel(level)
    \/ Render

SpecTurns == InitTurns /\ [][TurnsNext]_vars

\* submitTurnStream has just been called for the first turn of a new session.
InitStream ==
    /\ st = [InitialState EXCEPT !.session = Session(1, 0), !.isLoading = FALSE,
                                 !.isSubmitting = TRUE]
    /\ view = st
    /\ mediaStream = 0 /\ recorder = 0 /\ chunks = 0
    /\ live = {} /\ recording = {} /\ stopQueued = {}
    /\ pendingMic = 0 /\ nstarts = 1 /\ held = FALSE
    /\ turns = [t \in Turns |->
                  IF t = 1 THEN [IdleTurn EXCEPT !.pc = "fetch", !.sid = 1,
                                                 !.rec = 1, !.timer = TRUE]
                  ELSE IdleTurn]
    /\ nturns = 1
    /\ server = [i \in Sessions |-> IF i = 1 THEN 0 ELSE -1]
    /\ log = [i \in Sessions |-> <<>>]
    /\ skill = [i \in Sessions |-> IF i = 1 THEN DefaultSkill ELSE 0]
    /\ pipeline = [t \in Turns |-> Started]
    /\ creating = 0 /\ ncreates = 1

SpecStream == InitStream /\ [][StreamNext(MaxFrames, FALSE)]_vars

\* ================================================================= claims
\* --------------------------------------------- submitTurnStream (SpecStream)
IsErrorEvent(e) == e.status = "error" \/ e.error # ""
WellFormed(e) == e.json
IsFinalEvent(e) == e.json /\ e.status = "complete" /\ e.fen # NoFen
IsPrefix(a, b) == Len(a) <= Len(b) /\ SubSeq(b, 1, Len(a)) = a

\* C1, as the specification states it: an event with status 'error' or with
\* an error payload is the last event handed to the update handler, and the
\* call has failed with that event's error message.
C1_ErrorEventAborts ==
    \A t \in Turns : \A i \in 1..Len(turns[t].dispatched) :
        LET e == turns[t].dispatched[i] IN
        IsErrorEvent(e) =>
            /\ i = Len(turns[t].dispatched)
            /\ turns[t].outcome = Threw(IF e.error # "" THEN e.error ELSE MsgUnknown)

\* The frames all of whose text has been read, and those whose payload has.
FramesReceived(t) == SubSeq(turns[t].sent, 1, turns[t].nread \div FrameLen)
PayloadsReceived(t) == SubSeq(turns[t].sent, 1, (turns[t].nread + 1) \div FrameLen)

\* C2, as the specification states it: however the text is cut into chunks,
\* the events handed to the update handler are the well-formed frames
\* received so far, each once and in order; no received frame is dropped.
C2_EveryFrameDispatchedOnce ==
    \A t \in Turns :
        /\ IsPrefix(SelectSeq(FramesReceived(t), WellFormed), turns[t].dispatched)
        /\ IsPrefix(turns[t].dispatched, SelectSeq(PayloadsReceived(t), WellFormed))

\* C3, as the specification states it: a call whose stream ended, normally
\* or after delivering only a prefix of the events, without a 'complete'
\* event carrying a position has failed with the missing-result error.  The
\* calls that timed out or were handed an error event are left aside.
C3_MissingResultOnAnyEnd ==
    \A t \in Turns :
        (/\ turns[t].pc = "settled"
         /\ turns[t].final.none
         /\ ~turns[t].aborted
         /\ \A i \in 1..Len(turns[t].dispatched) : ~IsErrorEvent(turns[t].dispatched[i])
         /\ (turns[t].done \/ Len(turns[t].dispatched) > 0))
        => turns[t].outcome = Threw(MsgNoResult)

\* C3, amended: a call that observed no 'complete' event carrying a position
\* never returns a Turn Result; it fails with the missing-result error
\* exactly when a read reported the end of the stream, and with the error of
\* the interruption (the rejected read, the timeout) otherwise.
C3_NoResultWithoutComplete ==
    \A t \in Turns :
        (turns[t].pc = "settled" /\ turns[t].final.none) =>
            /\ turns[t].outcome.kind = "error"
            /\ (turns[t].outcome.msg = MsgNoResult) <=> turns[t].done

\* C3, its case: the stream ended after player_moved alone and the call failed.
C3_Witness ==
    \E t \in Turns :
        /\ turns[t].pc = "settled" /\ turns[t].done /\ turns[t].final.none
        /\ Len(turns[t].dispatched) = 1
        /\ turns[t].dispatched[1].status = "player_moved"
        /\ turns[t].outcome = Threw(MsgNoResult)

\* C4, as the specification states it: a frame that fails to parse is never
\* handed to the update handler and never fails the call, and every
\* well-formed frame received after it is handed to the update handler, a
\* 'complete' frame with a position giving the final result.
C4_LaterFramesStillDispatched ==
    \A t \in Turns :
        /\ \A k \in 1..Len(turns[t].dispatched) : WellFormed(turns[t].dispatched[k])
        /\ turns[t].outcome.msg # "SyntaxError"
        /\ \A i, j \in 1..Len(FramesReceived(t)) :
            (i < j /\ ~WellFormed(turns[t].sent[i]) /\ WellFormed(turns[t].sent[j]))
            => /\ \E k \in 1..Len(turns[t].dispatched) :
                      turns[t].dispatched[k] = turns[t].sent[j]
               /\ IsFinalEvent(turns[t].sent[j]) => ~turns[t].final.none

\* The part of C4 that holds: a read that returns whole frames, none of them
\* an error event, leaves the call reading; the frames that fail to parse are
\* not handed to the update handler, the well-formed ones, those after a
\* failed one included, are, and the last 'complete' frame with a position
\* is the final result.
WholeReadsSkipParseFailures ==
    [][\A t \in Turns :
        LET frames == SubSeq(turns[t].sent, (turns[t].nread \div FrameLen) + 1,
                             turns'[t].nread \div FrameLen)
            finals == SelectSeq(frames, IsFinalEvent)
        IN  (/\ turns[t].pc = "read"
             /\ turns'[t].nread > turns[t].nread
             /\ turns[t].nread % FrameLen = 0
             /\ turns'[t].nread % FrameLen = 0
             /\ \A i \in 1..Len(frames) : ~IsErrorEvent(frames[i]))
            => /\ turns'[t].pc = "read"
               /\ turns'[t].dispatched =
                      turns[t].dispatched \o SelectSeq(frames, WellFormed)
               /\ turns'[t].final =
                      IF finals = <<>> THEN turns[t].final
                      ELSE TurnResponse(finals[Len(finals)])]_vars

\* C5, as the specification states it: a call has failed with the timeout
\* message exactly when its deadline elapsed before it had finished.
C5_TimeoutMessageOnDeadline ==
    \A t \in Turns :
        turns[t].pc = "settled" =>
            (turns[t].aborted <=> turns[t].outcome = Threw(MsgTimeout))

\* --------------------------------------------------- the controller (Spec)
\* C6, as the specification states it: a turn that ends after a terminal
\* engine move sets gameEnded in the step that clears isSubmitting, and while
\* gameEnded holds, and has been rendered, no step starts a recording or
\* submits a turn.
C6_GameEndedFreezesInput ==
    [][/\ \A t \in Turns :
            (/\ turns[t].pc = "speak" /\ turns'[t].pc = "done"
             /\ IsTerminalSan(turns[t].final.san))
            => st'.gameEnded
       /\ (st.gameEnded /\ view.gameEnded)
          => (nstarts' = nstarts /\ nturns' = nturns)]_vars

\* C7, as the specification states it: gameEnded is cleared only by a step
\* that replaces the ended session with another one.
C7_GameEndedUntilNewSession ==
    [][(st.gameEnded /\ ~st'.gameEnded)
       => st'.session.session_id # st.session.session_id]_vars

\* A turn whose submitTurnStream call has been made and whose handling has
\* not finished.
InFlight(t) == turns[t].pc \in {"fetch", "errjson", "read", "getSession", "speak"}

\* C8, as the specification states it: at most one turn is in flight.
C8_SingleOutstandingTurn == Cardinality({t \in Turns : InFlight(t)}) <= 1

\* C9: a submitTurnStream call that ends with a Turn Result is followed by
\* the session fetch; a turn goes on to speak the move only from that fetch;
\* and when the fetch resolves the local session is the fetched one, whose
\* move list is not that of the Turn Result.
C9_SessionReplacedByFetch ==
    [][\A t \in Turns :
        /\ (/\ turns[t].pc = "read" /\ turns'[t].pc # "read"
            /\ turns[t].closed /\ Unread(t) = <<>>
            /\ ~turns[t].final.none
            /\ st'.error # MsgTimeout)
           => turns'[t].pc = "getSession"
        /\ (turns'[t].pc = "speak" /\ turns[t].pc # "speak")
           => turns[t].pc = "getSession"
        /\ (/\ turns[t].pc = "getSession" /\ turns'[t].pc # "getSession"
            /\ st'.error \notin RequestErrors)
           => /\ st'.session = Session(turns[t].sid, server[turns[t].sid])
              /\ st'.session.moves # turns[t].final.moves]_vars

\* C9, its case: a turn has fetched the session after its Turn Result and
\* the local session shows the moves the server holds.
C9_Witness ==
    \E t \in Turns :
        /\ turns[t].pc = "speak"
        /\ ~turns[t].final.none
        /\ st.session = Session(turns[t].sid, server[turns[t].sid])
        /\ st.session.moves >= 2

\* A step in which a turn ends in an error.
TurnEnds(t) ==
    /\ turns[t].pc \in {"stopping", "fetch", "errjson", "read", "getSession"}
    /\ turns'[t].pc = "done"

\* C10, as the specification states it: a turn that ends in an error leaves
\* a non-empty error message, isSubmitting cleared, and gameEnded and the
\* session identifier as they were.
C10_ErrorLeavesInputOpen ==
    [][\A t \in Turns :
        TurnEnds(t) =>
            /\ st'.error \notin {Null, ""}
            /\ ~st'.isSubmitting
            /\ st'.gameEnded = st.gameEnded
            /\ st'.session.session_id = st.session.session_id]_vars

\* C13: a call that has settled does not hold the reader's lock, on whichever
\* path it left the read loop.
C13_ReaderReleased ==
    \A t \in Turns : turns[t].pc = "settled" => ~turns[t].locked

\* C13, its case: the call took the reader, read part of the stream and was
\* aborted by the timer while a read was pending.
C13_Witness ==
    \E t \in Turns :
        /\ turns[t].pc = "settled" /\ ~turns[t].locked
        /\ turns[t].aborted /\ turns[t].nread > 0
        /\ turns[t].outcome = Threw(MsgTimeout)

\* C12, as the specification states it: when the handling of a turn that was
\* cancelled by the timeout has finished, the local session is the state the
\* server holds for that session.
C12_ResyncAfterTimeout ==
    [][\A t \in Turns :
        (/\ turns[t].pc \in {"fetch", "errjson", "read"}
         /\ turns'[t].pc = "done"
         /\ st'.error = MsgTimeout
         /\ st'.session.session_id = turns[t].sid)
        => st'.session = Session(turns[t].sid, server'[turns[t].sid])]_vars

\* StreamUpdate.status (client line 47): the enumerated statuses.
EnumeratedStatuses ==
    {"transcribing", "transcribed", "interpreting", "player_moved",
     "engine_thinking", "complete", "error"}

\* C14, as the specification states it: for every update with an enumerated
\* status that reaches the update handler, the handler sets a non-empty
\* status message.
C14_EveryStatusHasMessage ==
    \A t \in Turns : \A i \in 1..Len(turns[t].dispatched) :
        turns[t].dispatched[i].status \in EnumeratedStatuses
        => handleStreamUpdate(Null, turns[t].dispatched[i]) \notin {Null, ""}

\* C15, as the specification states it: when the session fetch that follows
\* a Turn Result resolves, the fetched position is that of the Turn Result.
C15_ResultFenIsSessionFen ==
    [][\A t \in Turns :
        (turns[t].pc = "getSession" /\ turns'[t].pc = "speak")
        => st'.session.fen = turns[t].final.fen]_vars


\* ------------------------------------------------------------------ C11
RECURSIVE IsSubsequence(_, _)
IsSubsequence(s, full) ==
    IF s = <<>> THEN TRUE
    ELSE IF full = <<>> THEN FALSE
    ELSE IF Head(s) = Head(full) THEN IsSubsequence(Tail(s), Tail(full))
    ELSE IsSubsequence(s, Tail(full))

DispatchedStatuses(t) ==
    [i \in 1..Len(turns[t].dispatched) |-> turns[t].dispatched[i].status]

\* C11: for a successful turn (one whose call has taken its Turn Result from
\* a complete event), the statuses handed to the update handler are, in
\* order and without repetition, a subsequence of transcribing, transcribed,
\* interpreting, player_moved, engine_thinking, complete.
C11_StatusesInPipelineOrder ==
    \A t \in Turns :
        turns[t].final # NoResult
        => IsSubsequence(DispatchedStatuses(t), StatusOrder)

\* A successful turn all of whose six events were dispatched, and one that
\* lost some of them.
C11_Witness ==
    \E t \in Turns :
        /\ turns[t].final # NoResult
        /\ DispatchedStatuses(t) = StatusOrder
        /\ pipeline[t].stage = "Complete"

\* ------------------------------------------------------------------ C16
\* The turns of session s whose pipeline reached Complete, and those that
\* recorded the player's move and no reply of the engine.
Successful(s) ==
    {t \in Turns : pipeline[t].sid = s /\ pipeline[t].stage = "Complete"}
PlayerOnly(s) ==
    {t \in Turns :
        /\ pipeline[t].sid = s
        /\ \/ pipeline[t].stage \in {"PlayerMoved", "EngineThinking"}
           \/ pipeline[t].stage = "Failed" /\ pipeline[t].failedIn = "EngineThinking"}
NoneInProgress ==
    \A t \in Turns : pipeline[t].stage = "Started" \/ Ended(pipeline[t])
ActorCount(moves, n, actor) ==
    Cardinality({i \in 1..n : moves[i].actor = actor})
PliesInOrder(moves) == \A i \in 1..Len(moves) : moves[i].ply = i

\* C16 as stated: whenever no turn is in progress, the move log of every
\* session has two records for each of its successful turns, numbered from
\* one, the player's and the engine's in turn.
C16_TwoRecordsPerSuccess ==
    \A s \in Sessions :
        NoneInProgress
        => /\ Len(log[s]) = 2 * Cardinality(Successful(s))
           /\ PliesInOrder(log[s])
           /\ \A i \in 1..Len(log[s]) :
                  log[s][i].actor = IF i % 2 = 1 THEN "player" ELSE "engine"

\* C16, amended: after N successful turns and P turns that recorded the
\* player's move alone, the move log has 2N + P records numbered 1..2N+P,
\* N + P of them the player's and N the engine's, and every prefix of the
\* log holds at least as many records of the player as of the engine.
C16_RecordsPerTurn ==
    \A s \in Sessions :
        LET N == Cardinality(Successful(s))
            P == Cardinality(PlayerOnly(s))
            moves == log[s]
        IN  /\ Len(moves) = 2 * N + P
            /\ PliesInOrder(moves)
            /\ ActorCount(moves, Len(moves), "player") = N + P
            /\ ActorCount(moves, Len(moves), "engine") = N
            /\ \A n \in 1..Len(moves) :
                   ActorCount(moves, n, "player") >= ActorCount(moves, n, "engine")

\* A turn that failed at the engine stage, and then a successful one.
C16_Witness ==
    \E s \in Sessions :
        /\ NoneInProgress
        /\ Cardinality(Successful(s)) = 1
        /\ Cardinality(PlayerOnly(s)) = 1
        /\ Len(log[s]) = 3

\* ------------------------------------------------------------------ C17
\* The engine has been asked for a reply in turn t.
EngineQueried(p) == p.level # 0

\* C17: when the engine is asked for its reply the player's move is already
\* in the session, and a turn whose engine stage fails ends in Failed with
\* that move recorded: one record more than before the turn, the player's,
\* and the position one ply further.
C17_PlayerMoveCommittedFirst ==
    [][\A t \in Turns :
        LET sid == pipeline'[t].sid
            before == pipeline'[t].moves
        IN  /\ EngineQueried(pipeline'[t])
               => /\ Len(log'[sid]) > Len(before)
                  /\ SubSeq(log'[sid], 1, Len(before) + 1)
                         = Append(before, MoveRecord(Len(before) + 1, "player"))
            /\ (pipeline[t].stage = "EngineThinking" /\ pipeline'[t].stage = "Failed")
               => /\ log'[sid] = Append(before, MoveRecord(Len(before) + 1, "player"))
                  /\ server'[sid] = pipeline'[t].plies + 1]_vars

\* The engine stage of a second turn has failed.
C17_Witness ==
    \E t \in Turns :
        /\ pipeline[t].stage = "Failed"
        /\ pipeline[t].failedIn = "EngineThinking"
        /\ Len(pipeline[t].moves) > 0
        /\ Len(log[pipeline[t].sid]) = Len(pipeline[t].moves) + 1

\* ------------------------------------------------------------------ C18
\* The pipeline of turn t ends in this step.
Ends(t, stage) == pipeline[t].stage # stage /\ pipeline'[t].stage = stage
BothApplied(t) ==
    LET sid == pipeline'[t].sid
        before == pipeline'[t].moves
    IN  /\ log'[sid] = Append(Append(before, MoveRecord(Len(before) + 1, "player")),
                              MoveRecord(Len(before) + 2, "engine"))
        /\ server'[sid] = pipeline'[t].plies + 2
SessionUnchanged(t) ==
    /\ log'[pipeline'[t].sid] = pipeline'[t].moves
    /\ server'[pipeline'[t].sid] = pipeline'[t].plies
PlayerMoveAlone(t) ==
    LET sid == pipeline'[t].sid
        before == pipeline'[t].moves
    IN  /\ log'[sid] = Append(before, MoveRecord(Len(before) + 1, "player"))
        /\ server'[sid] = pipeline'[t].plies + 1

\* C18 as stated: a turn that ends has applied both moves (Complete) or has
\* left the session's position and move log as they were before it (Failed,
\* at whatever stage).
C18_NeverPartiallyApplied ==
    [][\A t \in Turns :
        /\ Ends(t, "Complete") => BothApplied(t)
        /\ Ends(t, "Failed") => SessionUnchanged(t)]_vars

\* C18, amended: a turn that ends in Complete has applied both moves; one
\* that ends in Failed before the player's move was committed has left the
\* session unchanged; one that ends in Failed at the engine stage has
\* applied the player's move and nothing else.
C18_AppliedByStage ==
    [][\A t \in Turns :
        /\ Ends(t, "Complete") => BothApplied(t)
        /\ Ends(t, "Failed")
           => IF pipeline'[t].failedIn = "EngineThinking"
              THEN PlayerMoveAlone(t)
              ELSE SessionUnchanged(t)]_vars

\* Of two turns one was rejected while its move was interpreted and the
\* other has applied both of its moves.
C18_Witness ==
    \E t, u \in Turns :
        /\ pipeline[t].stage = "Failed" /\ pipeline[t].failedIn = "Interpreting"
        /\ pipeline[u].stage = "Complete"
        /\ Len(log[pipeline[u].sid]) = 2

\* ------------------------------------------------------------------ C19
SentStatuses(turn) == {turn.sent[i].status : i \in 1..Len(turn.sent)}

\* C19: a turn that fails while the audio is transcribed or the move is
\* interpreted leaves the position and the move log of the session as they
\* were before the turn, and has emitted no player_moved, engine_thinking or
\* complete event.
C19_EarlyFailureLeavesSession ==
    [][\A t \in Turns :
        (Ends(t, "Failed") /\ pipeline'[t].failedIn \in {"Transcribing", "Interpreting"})
        => /\ SessionUnchanged(t)
           /\ SentStatuses(turns'[t])
                  \cap {"player_moved", "engine_thinking", "complete"} = {}]_vars

\* The second turn of a session was rejected on an empty transcript after
\* the first had been played.
C19_Witness ==
    \E t \in Turns :
        /\ pipeline[t].stage = "Failed" /\ pipeline[t].failedIn = "Transcribing"
        /\ Len(pipeline[t].moves) = 2
        /\ log[pipeline[t].sid] = pipeline[t].moves
        /\ turns[t].pc = "read"
        /\ SentStatuses(turns[t]) = {"transcribing", "error"}

\* ------------------------------------------------------------------ C20
\* C20: the engine is asked for its reply at the level the Engine Difficulty
\* slider shows: when the pipeline of a turn queries the engine, the level
\* of the query is the displayed skill level.
C20_EngineAskedAtDisplayedLevel ==
    [][\A t \in Turns :
        (~EngineQueried(pipeline[t]) /\ EngineQueried(pipeline'[t]))
        => pipeline'[t].level = st.skillLevel]_vars

\* ------------------------------------------------------------------ C21
\* The dispatched events of turn t that are terminal successes: status
\* complete with a position.
CompleteWithFen(t) ==
    {i \in 1..Len(turns[t].dispatched) :
        /\ turns[t].dispatched[i].status = "complete"
        /\ turns[t].dispatched[i].fen # NoFen}

\* C21: the call holds a Turn Result exactly when an event with status
\* complete and a position has been dispatched; the result has the fen and
\* the engine move of the last such event and an empty move list.  Events of
\* any other status, and complete events without a position, give none.
C21_ResultFromCompleteWithFen ==
    \A t \in Turns :
        LET found == CompleteWithFen(t) IN
        IF found = {}
        THEN turns[t].final = NoResult
        ELSE LET e == turns[t].dispatched[CHOOSE i \in found : \A j \in found : j <= i]
             IN  turns[t].final =
                     [fen |-> e.fen, san |-> e.san, moves |-> 0, none |-> FALSE]

\* A complete event without a position was dispatched and gave no result; a
\* later one with a position gave it.
C21_Witness ==
    \E t \in Turns :
        /\ Len(turns[t].dispatched) = 2
        /\ turns[t].dispatched[1].status = "complete"
        /\ turns[t].dispatched[1].fen = NoFen
        /\ CompleteWithFen(t) = {2}
        /\ turns[t].final.fen = turns[t].dispatched[2].fen

\* ------------------------------------------------------------------ C22
\* C22: a call that has processed a complete event with a position returns
\* its Turn Result, whatever is received afterwards and whenever the
\* deadline elapses; a connection that breaks is left aside.
C22_CompleteIsFinal ==
    \A t \in Turns :
        (/\ turns[t].pc = "settled"
         /\ turns[t].final # NoResult
         /\ turns[t].outcome # Threw(MsgNetwork))
        => turns[t].outcome = Returned

\* ------------------------------------------------------------------ C23
\* C23: every Turn Result that submitTurnStream returns carries an engine
\* move, whatever events the server sends.
C23_ResultHasEngineMove ==
    \A t \in Turns :
        (turns[t].pc = "settled" /\ turns[t].outcome = Returned)
        => turns[t].final.san # NoMove

\* ------------------------------------------------------------------ C24
\* C24: while a createSession request is in flight and the page shows the
\* loading state, no recording is started and no turn is submitted, and the
\* session on the page is never replaced by an older one.
C24_NoTurnWhileLoading ==
    [][/\ (st.isLoading /\ creating > 0)
          => (pendingMic' <= pendingMic /\ nturns' = nturns)
       /\ st'.session.session_id >= st.session.session_id]_vars

\* ------------------------------------------------------------------ C25
\* What settles by itself: a pending render is made, the recorder's stop
\* event is delivered, getSession and speakMove settle, and a
\* submitTurnStream call goes on until its fetch and its reads have settled
\* or its timer has fired.  Nothing is assumed of the user or of the server.
Settles ==
    /\ WF_vars(Render)
    /\ WF_vars(\E r \in 1..MaxStarts, hasData \in BOOLEAN : RecorderStopEvent(r, hasData))
    /\ \A t \in Turns :
           /\ WF_vars(ClientNext(t, AppFrames, TRUE))
           /\ WF_vars(GetSessionResolves(t) \/ \E msg \in RequestErrors : GetSessionFails(t, msg))
           /\ WF_vars(SpeakSettles(t))

\* The turns of one session: every way of pressing and releasing, the
\* requests of each turn and the renders.
SessionNext ==
    \/ \E kind \in PressKinds : handleStartRecording(kind)
    \/ MicGranted
    \/ MicDenied
    \/ \E kind \in ReleaseKinds : handleStopRecording(kind)
    \/ \E r \in 1..MaxStarts, hasData \in BOOLEAN : RecorderStopEvent(r, hasData)
    \/ StreamNext(AppFrames, TRUE)
    \/ \E t \in Turns : GetSessionResolves(t)
    \/ \E t \in Turns, msg \in RequestErrors : GetSessionFails(t, msg)
    \/ \E t \in Turns : SpeakSettles(t)
    \/ Render

SpecSettles == InitTurns /\ [][SessionNext]_vars /\ Settles

\* C25: when every request, the recorder's stop event and every pending
\* render settle, a state in which isSubmitting is true is followed by one
\* in which it is false.
C25_SubmittingIsCleared == st.isSubmitting ~> ~st.isSubmitting

\* A turn that ran into its deadline has ended and isSubmitting is false.
C25_Witness ==
    \E t \in Turns :
        /\ turns[t].pc = "done"
        /\ st.error = MsgTimeout
        /\ ~st.isSubmitting
        /\ \A u \in Turns : turns[u].pc \in {"idle", "done"}

\* ------------------------------------------------------------------ C26
\* C26: the recorder holds at most one acquired microphone stream whose
\* tracks are not stopped.
C26_OneStreamHeld == Cardinality(live) <= 1

\* ------------------------------------------------------------------ C27
\* The presses and releases of the user, heard by the handlers or not, with
\* the recorder they drive and the turns they submit.
PressesNext ==
    \/ \E kind \in PressKinds : handleStartRecording(kind)
    \/ \E kind \in PressKinds : PressUnheard(kind)
    \/ MicGranted
    \/ MicDenied
    \/ \E kind \in ReleaseKinds : handleStopRecording(kind)
    \/ \E kind \in ReleaseKinds : ReleaseUnheard(kind)
    \/ \E r \in 1..MaxStarts, hasData \in BOOLEAN : RecorderStopEvent(r, hasData)
    \/ Render

SpecPresses == InitTurns /\ [][PressesNext]_vars

\* C27: a MediaRecorder is recording only while the button or the Enter key
\* is held: once the release has come, no recorder is left recording,
\* whether the release came before or after the microphone was granted.
C27_RecordingOnlyWhileHeld == recording # {} => held

====
